---- MODULE Spec2Model ----
(***************************************************************************)
(* A model of scimodeldev/stats.py, class SciModelStats: the normal        *)
(* quantile table built by the constructor, z_score_lookup, the quadrature *)
(* CDFs and the hypothesis tests built on them.                            *)
(*                                                                         *)
(* Real numbers are fixed-point integers.  Statistics (z, t, chi-square,   *)
(* F, critical values) are in hundredths (SZ); probabilities, significance *)
(* levels and densities are in ten-thousandths (SP).  A call of a method   *)
(* is one action: it records the inputs in `call`, the steps the method    *)
(* performed, in program order, in `events`, and what it returned or       *)
(* raised in `result`.  The caller then takes the result (Return).         *)
(***************************************************************************)
EXTENDS Integers, Sequences, FiniteSets, TLC

VARIABLES z_values, prob_values, pc, ncalls, call, events, result

vars == <<z_values, prob_values, pc, ncalls, call, events, result>>

----------------------------------------------------------------------------
(* Bounds of the model *)

\* number of entries of the normal-quantile table (7000 in the source)
TableLen == 71

\* number of calls made on one engine instance
MaxCalls == 2

----------------------------------------------------------------------------
(* Fixed-point arithmetic *)

\* the units: hundredths and ten-thousandths
SZ == 10 * 10
SP == SZ * SZ

Abs(a) == IF a < 0 THEN -a ELSE a

Sgn(a) == IF a < 0 THEN -1 ELSE IF a > 0 THEN 1 ELSE 0

\* quotient rounded toward zero, b # 0
Quot(a, b) == Sgn(a) * Sgn(b) * (Abs(a) \div Abs(b))

Min2(a, b) == IF a < b THEN a ELSE b

Max2(a, b) == IF a > b THEN a ELSE b

RECURSIVE ISqrtB(_, _, _)
ISqrtB(n, lo, hi) ==
  IF lo >= hi THEN lo
  ELSE LET mid == (lo + hi + 1) \div 2
       IN  IF mid * mid <= n THEN ISqrtB(n, mid, hi) ELSE ISqrtB(n, lo, mid - 1)

\* floor of the square root of n >= 0
ISqrt(n) == ISqrtB(n, 0, Min2(n, 46340))

\* torch.sqrt on a value in hundredths / in ten-thousandths
SqrtZ(v) == ISqrt(v * SZ)
SqrtP(v) == ISqrt(v * SP)

\* a product and a quotient of two values in hundredths
MulZ(a, b) == Quot(a * b, SZ)
DivZ(a, b) == Quot(a * SZ, b)

\* a product of two values in ten-thousandths
MulP(a, b) == Quot(a * b, SP)

----------------------------------------------------------------------------
(* The standard normal CDF and its inverse (erf, erfinv) *)

\* 0.5 * (1 + erf(z / sqrt 2)) at z = 0.0, 0.1, ..., 4.0, in ten-thousandths
PhiRef ==
  <<5000, 5398, 5793, 6179, 6554, 6915, 7257, 7580, 7881, 8159,
    8413, 8643, 8849, 9032, 9192, 9332, 9452, 9554, 9641, 9713,
    9772, 9821, 9861, 9893, 9918, 9938, 9953, 9965, 9974, 9981,
    9987, 9990, 9993, 9995, 9997, 9998, 9998, 9999, 9999, 10000, 10000>>

\* Phi at z >= 0 (hundredths): the tabulated erf, linear between its points
PhiPos(z) ==
  IF z >= 400 THEN SP
  ELSE LET k == z \div 10
           r == z % 10
       IN  PhiRef[k + 1] + Quot((PhiRef[k + 2] - PhiRef[k + 1]) * r, 10)

\* 0.5 * (1 + erf(z / sqrt 2)); erf is odd
Phi(z) == IF z >= 0 THEN PhiPos(z) ELSE SP - PhiPos(-z)

\* cdf(z, mu, sigma), sigma > 0, all in hundredths
cdf(z, mu, sigma) == Phi(DivZ(z - mu, sigma))

\* sqrt(2) * erfinv(2p - 1) for 0.5 <= p < 1: the inverse of PhiPos
NormInvPos(p) ==
  LET k == CHOOSE j \in 1..(Len(PhiRef) - 1) :
             /\ PhiRef[j] <= p
             /\ p < PhiRef[j + 1] \/ (j = Len(PhiRef) - 1)
  IN  IF PhiRef[k + 1] = PhiRef[k] THEN 10 * (k - 1)
      ELSE 10 * (k - 1) + Quot(10 * (p - PhiRef[k]), PhiRef[k + 1] - PhiRef[k])

\* the standard normal quantile, 0 < p < 1 (torch.distributions.Normal(0,1).icdf)
NormInv(p) == IF p >= SP \div 2 THEN NormInvPos(p) ELSE -NormInvPos(SP - p)

\* ppf(p, mu, sigma)
ppf(p, mu, sigma) == mu + MulZ(sigma, NormInv(p))

----------------------------------------------------------------------------
(* __init__: the normal-quantile table *)

\* torch.linspace(a, b, n): n points from a to b, both included
linspace(a, b, n) == [i \in 1..n |-> IF i = n THEN b ELSE a + Quot((i - 1) * (b - a), n - 1)]

InitZValues == linspace(-350, 350, TableLen)

InitProbValues == [i \in 1..TableLen |-> Phi(InitZValues[i])]

----------------------------------------------------------------------------
(* z_score_lookup *)

\* diffs = torch.abs(self.prob_values - given_prob): a new tensor
Diffs(pv, p) == [i \in DOMAIN pv |-> Abs(pv[i] - p)]

\* a variant that takes the differences in place, in self.prob_values
ProbValuesAfterDiffs_InPlace(pv, p) == [i \in DOMAIN pv |-> Abs(pv[i] - p)]

\* the tensor self.prob_values refers to once diffs has been computed
ProbValuesAfterDiffs(pv, p) == pv

SeqMax(s) == CHOOSE m \in {s[i] : i \in DOMAIN s} : \A i \in DOMAIN s : s[i] <= m

\* torch.topk(diffs, 1, largest=False): an index of a smallest element
Topk1(d) == {i \in DOMAIN d : \A k \in DOMAIN d : d[i] <= d[k]}

\* torch.topk(diffs, 2, largest=False): the indices of two smallest elements,
\* the smaller first; the order among equal elements is not specified
Topk2(d) ==
  UNION {{<<i, j>> : j \in {m \in (DOMAIN d) \ {i} :
                              \A k \in (DOMAIN d) \ {i} : d[m] <= d[k]}} :
         i \in Topk1(d)}

\* the interpolation of line 282 between the entries idx[1] and idx[2]
Interpolate(zv, pv, p, idx) ==
  zv[idx[1]] + Quot((zv[idx[2]] - zv[idx[1]]) * (p - pv[idx[1]]), pv[idx[2]] - pv[idx[1]])

\* the index selections z_score_lookup can make for given_prob = p
LookupIdx(pv, p) ==
  LET diffs == Diffs(pv, p)
  IN  IF SeqMax(diffs) = 0
        THEN {<<i, i>> : i \in Topk1(diffs)}
        ELSE Topk2(diffs)

\* the value z_score_lookup returns with the selection idx: an entry of the
\* table when idx names one entry, the interpolation when it names two
LookupValue(zv, pv, p, idx) ==
  IF idx[1] = idx[2] THEN zv[idx[1]] ELSE Interpolate(zv, pv, p, idx)

\* the values z_score_lookup(p) can return
z_score_lookup(zv, pv, p) == {LookupValue(zv, pv, p, idx) : idx \in LookupIdx(pv, p)}

----------------------------------------------------------------------------
(* Special functions of the density evaluators: gamma, exp, powers *)

\* quotient rounded to the nearest integer, b > 0
RDiv(a, b) == Quot(a + Sgn(a) * (b \div 2), b)

\* exp(lgamma(k / 2)) for k = 1..14, in thousandths
GammaHalf ==
  <<1772, 1000, 886, 1000, 1329, 2000, 3323, 6000, 11632, 24000,
    52343, 120000, 287885, 720000>>

\* e^-q for q = 0..11, in ten-thousandths
ExpNegInt == <<10000, 3679, 1353, 498, 183, 67, 25, 9, 3, 1, 0, 0>>

\* e^-f for 0 <= f < 1 (ten-thousandths): the series 1 - f + f^2/2 - ... to f^8/8!
RECURSIVE ExpNegFrac(_, _)
ExpNegFrac(f, k) ==
  IF k > 8 THEN SP ELSE SP - RDiv(f * ExpNegFrac(f, k + 1), k * SP)

\* torch.exp(-h) for h >= 0 in ten-thousandths
ExpNeg(h) ==
  IF h \div SP >= Len(ExpNegInt) THEN 0
  ELSE RDiv(ExpNegInt[(h \div SP) + 1] * ExpNegFrac(h % SP, 1), SP)

\* u ^ m for an integer m >= 0, u >= 0 in ten-thousandths
RECURSIVE PowP(_, _)
PowP(u, m) ==
  IF m = 0 THEN SP ELSE IF m = 1 THEN u ELSE RDiv(u * PowP(u, m - 1), SP)

\* u ^ (d / 2) for an integer d >= 0 and 0 <= u <= 1, in ten-thousandths
PowHalf(u, d) ==
  IF d % 2 = 0 THEN PowP(u, d \div 2)
  ELSE RDiv(PowP(u, d \div 2) * ISqrt(u * SP), SP)

\* r / b ^ m for an integer m >= 0, r and b in ten-thousandths, b >= 1
RECURSIVE DivPow(_, _, _)
DivPow(r, b, m) == IF m = 0 THEN r ELSE DivPow(RDiv(r * SP, b), b, m - 1)

\* 2 ^ m for an integer m >= 0
RECURSIVE Pow2(_)
Pow2(m) == IF m = 0 THEN 1 ELSE 2 * Pow2(m - 1)

\* torch.trapz(y, x): x in hundredths, y in ten-thousandths
RECURSIVE TrapzSum(_, _, _)
TrapzSum(y, x, i) ==
  IF i >= Len(x) THEN 0
  ELSE (x[i + 1] - x[i]) * (y[i + 1] + y[i]) + TrapzSum(y, x, i + 1)

trapz(y, x) == RDiv(TrapzSum(y, x, 1), 2 * SZ)

----------------------------------------------------------------------------
(* The Student-t density and CDF *)

\* number of grid points of t_cdf (num_points, 2000000 in the source)
TNumPoints == 41

\* the lower end of the integration range of t_cdf, in hundredths; the source
\* integrates from -13000 with 2000000 points, the model from -20 with TNumPoints
TLower == -2000

\* t_pdf(x, df): x in hundredths, df a positive integer
t_pdf(x, df) ==
  LET nom   == RDiv(GammaHalf[df + 1] * SP, GammaHalf[df])
      sqdp  == ISqrt(df * 3141593)
      base  == SP + RDiv(x * x, df)
      whole == DivPow(RDiv(nom * 1000, sqdp), base, (df + 1) \div 2)
  IN  IF df % 2 = 1 THEN whole ELSE RDiv(whole * 1000, ISqrt(base * 100))

\* t_cdf(t_value, df)
t_cdf(t_value, df) ==
  LET x == linspace(TLower, t_value, TNumPoints)
      y == [i \in 1..TNumPoints |-> t_pdf(x[i], df)]
  IN  trapz(y, x)

----------------------------------------------------------------------------
(* The chi-square density and CDF *)

\* number of grid points of chi_cdf (steps, 40000000 in the source)
ChiSteps == 41

\* the lower end of the integration range of chi_cdf: 0.3e-6 in the source, the
\* smallest positive x of the model
ChiLower == 1

\* exp(chi_log_pdf(x, k)): x > 0 in hundredths, k >= 0 an integer; lgamma(0) is
\* infinite, so the density is 0 for k = 0
chi_pdf(x, k) ==
  IF k = 0 THEN 0 ELSE
  LET xp  == x * (SP \div SZ)
      pw  == IF k % 2 = 0 THEN PowP(xp, (k - 2) \div 2)
             ELSE IF k = 1 THEN RDiv(SP * SP, ISqrt(xp * SP))
             ELSE RDiv(PowP(xp, (k - 3) \div 2) * ISqrt(xp * SP), SP)
      two == IF k % 2 = 0 THEN Pow2(k \div 2) * 1000
             ELSE Pow2(k \div 2) * 1414
  IN  RDiv(RDiv(RDiv(pw * ExpNeg(xp \div 2), SP) * 1000, two) * 1000, GammaHalf[k])

\* chi_cdf(x, k): the grid runs from the lower end to x, downwards when x is
\* below it; the + 1e-10 of the grid keeps the argument of the density positive
chi_cdf(x, k) ==
  LET x_range == linspace(ChiLower, x, ChiSteps)
      pdf_values == [i \in 1..ChiSteps |-> chi_pdf(Max2(x_range[i], ChiLower), k)]
  IN  trapz(pdf_values, x_range)

----------------------------------------------------------------------------
(* The F density and CDF *)

\* number of intervals of F_cdf (n, 150000000 in the source)
FIntervals == 40

\* the offset of the grid of F_cdf: 1e-7 in the source, the smallest positive
\* x of the model
FOffset == 1

\* F_pdf(x, d1, d2): x > 0 in hundredths, d1 and d2 positive integers
F_pdf(x, d1, d2) ==
  LET u1   == RDiv(d1 * x * SP, d1 * x + d2 * SZ)
      u2   == RDiv(d2 * SZ * SP, d1 * x + d2 * SZ)
      num  == RDiv(PowHalf(u1, d1) * PowHalf(u2, d2), SP)
      beta == RDiv(RDiv(GammaHalf[d1] * GammaHalf[d2], 1000) * SP, GammaHalf[d1 + d2])
  IN  RDiv(RDiv(num * SZ, x) * SP, beta)

\* F_cdf(F, d1, d2)
F_cdf(F, d1, d2) ==
  LET x_values == [i \in 1..(FIntervals + 1) |->
                     linspace(0, F, FIntervals + 1)[i] + FOffset]
      pdf_values == [i \in 1..(FIntervals + 1) |-> F_pdf(x_values[i], d1, d2)]
  IN  trapz(pdf_values, x_values)

----------------------------------------------------------------------------
(* Inputs *)

TestTypes == {"lower-tail", "upper-tail", "two-tail"}

\* test_type arguments, one of them not a test type
TestTypeArgs == TestTypes \cup {"both-tails"}

\* significance levels 0.01, 0.05, 0.10
Alphas == {100, 500, 1000}

\* what a call left: whether it raised, the statistic and the second value it
\* returned (a critical value or a p-value) with their kinds ("fin" a finite
\* number, "inf" +infinity, "nan" not a number, "none" nothing), the value the
\* statistic was compared against and the verdict printed
NoResult ==
  [raised |-> FALSE, kind |-> "none", statistic |-> 0, vkind |-> "none", value |-> 0,
   compared |-> 0, verdict |-> "none"]

Raised == [NoResult EXCEPT !.raised = TRUE]

Verdict(rej) == IF rej THEN "reject" ELSE "fail-to-reject"

\* a (statistic, critical value) pair
ZResult(z, zc, cmp, rej) ==
  [raised |-> FALSE, kind |-> "fin", statistic |-> z, vkind |-> "fin", value |-> zc,
   compared |-> cmp, verdict |-> Verdict(rej)]

\* a (statistic, p-value) pair, both finite; the verdict is printed by
\* `if p_value < alpha`
PResult(stat, p, alpha) ==
  [raised |-> FALSE, kind |-> "fin", statistic |-> stat, vkind |-> "fin", value |-> p,
   compared |-> alpha, verdict |-> Verdict(p < alpha)]

\* a statistic that is infinite or not a number: the p-value is not a number
\* and `p_value < alpha` is false
NaNResult(kind, alpha) ==
  [raised |-> FALSE, kind |-> kind, statistic |-> 0, vkind |-> "nan", value |-> 0,
   compared |-> alpha, verdict |-> Verdict(FALSE)]

Init ==
  /\ z_values = InitZValues
  /\ prob_values = InitProbValues
  /\ pc = "idle"
  /\ ncalls = 0
  /\ call = [op |-> "none"]
  /\ events = <<>>
  /\ result = NoResult

\* a method of the engine instance is called
BeginCall ==
  /\ pc = "idle"
  /\ ncalls < MaxCalls
  /\ ncalls' = ncalls + 1
  /\ pc' = "returned"

\* the caller takes what the call returned or raised
Return ==
  /\ pc = "returned"
  /\ pc' = "idle"
  /\ call' = [op |-> "none"]
  /\ events' = <<>>
  /\ result' = NoResult
  /\ UNCHANGED <<z_values, prob_values, ncalls>>

----------------------------------------------------------------------------
(* z_score_lookup, cdf and ppf called on their own *)

\* query probabilities: every 1% from 0 to 1, the probabilities of the table
\* and their neighbours
LookupProbs ==
  {100 * k : k \in 0..100} \cup
  {InitProbValues[i] + e : i \in 1..TableLen, e \in {-1, 0, 1}}

Call_z_score_lookup ==
  /\ BeginCall
  /\ \E p \in LookupProbs :
       \E idx \in LookupIdx(prob_values, p) :
         /\ call' = [op |-> "z_score_lookup", given_prob |-> p, idx |-> idx]
         /\ events' = <<"compute_diffs", "topk", "return">>
         /\ result' = [NoResult EXCEPT !.vkind = "fin",
                         !.value = LookupValue(z_values, prob_values, p, idx)]
         /\ prob_values' = ProbValuesAfterDiffs(prob_values, p)
  /\ UNCHANGED z_values

\* what cdf returns for any sigma: with sigma = 0 the quotient (z - mu) / 0 is
\* +inf, -inf or not a number, and erf takes it to 1, -1 or not a number
cdf_kind(z, mu, sigma) == IF sigma = 0 /\ z = mu THEN "nan" ELSE "fin"

cdf_value(z, mu, sigma) ==
  IF sigma # 0 THEN cdf(z, mu, sigma) ELSE IF z > mu THEN SP ELSE 0

Call_cdf ==
  /\ BeginCall
  /\ \E z \in {-196, -100, 0, 50, 164, 300}, mu \in {0, 50},
        sigma \in {100, 200, 0, -100} :
       /\ call' = [op |-> "cdf", z |-> z, mu |-> mu, sigma |-> sigma]
       /\ result' = [NoResult EXCEPT !.vkind = cdf_kind(z, mu, sigma),
                                     !.value = cdf_value(z, mu, sigma)]
  /\ events' = <<"compute_cdf", "return">>
  /\ UNCHANGED <<z_values, prob_values>>

Call_ppf ==
  /\ BeginCall
  /\ \E p \in {250, 500, 5000, 9500, 9750}, mu \in {0, 50}, sigma \in {100, 200} :
       /\ call' = [op |-> "ppf", p |-> p, mu |-> mu, sigma |-> sigma]
       /\ result' = [NoResult EXCEPT !.vkind = "fin", !.value = ppf(p, mu, sigma)]
  /\ events' = <<"compute_ppf", "return">>
  /\ UNCHANGED <<z_values, prob_values>>

----------------------------------------------------------------------------
(* The z-based tests: z_test, one_proportion, two_sample_z_test,           *)
(* two_proportion_test                                                     *)

ZTestNames == {"z_test", "one_proportion", "two_sample_z_test", "two_proportion_test"}

\* the steps of a z-based test after its statistic, for a valid and for an
\* invalid test_type; z_test, one_proportion and two_sample_z_test print the
\* statistic and the critical value, two_proportion_test does not
ZEventsPrinted(tt) ==
  <<"compute_statistic", "print_statistic">> \o
    (IF tt \in TestTypes
       THEN <<"compute_critical", "print_critical", "print_verdict", "return">>
       ELSE <<"raise">>)

ZEventsSilent(tt) ==
  <<"compute_statistic">> \o
    (IF tt \in TestTypes
       THEN <<"compute_critical", "print_verdict", "return">>
       ELSE <<"raise">>)

(* z_test *)

\* z_score = (x_bar - mu) / (sigma / sqrt(n))
z_test_statistic(x_bar, mu, sigma, n) ==
  DivZ((x_bar - mu) * SZ, DivZ(sigma * SZ, SqrtZ(n * SZ)))

\* the probability z_test looks up for its critical value
z_test_prob(alpha, tt) ==
  CASE tt = "lower-tail" -> SP - alpha
    [] tt = "upper-tail" -> alpha
    [] tt = "two-tail"   -> SP - Quot(alpha, 2)

\* the value z_test compares the statistic against
z_test_compared(zc, tt) == IF tt = "lower-tail" THEN -zc ELSE zc

z_test_reject(z, zc, tt) ==
  CASE tt = "two-tail"   -> Abs(z) > zc
    [] tt = "lower-tail" -> z < -zc
    [] tt = "upper-tail" -> z > zc

Call_z_test ==
  /\ BeginCall
  /\ \E x_bar \in {46, 50, 52, 54}, mu \in {50}, sigma \in {5, 10, -10}, n \in {16, 30},
        alpha \in Alphas, tt \in TestTypeArgs :
       LET z == z_test_statistic(x_bar, mu, sigma, n) IN
       /\ call' = [op |-> "z_test", x_bar |-> x_bar, mu |-> mu, sigma |-> sigma,
                   n |-> n, alpha |-> alpha, test_type |-> tt, statistic |-> z]
       /\ events' = ZEventsPrinted(tt)
       /\ IF tt \in TestTypes
            THEN /\ \E zc \in z_score_lookup(z_values, prob_values, z_test_prob(alpha, tt)) :
                      result' = ZResult(z, zc, z_test_compared(zc, tt),
                                        z_test_reject(z, zc, tt))
                 /\ prob_values' = ProbValuesAfterDiffs(prob_values, z_test_prob(alpha, tt))
            ELSE /\ result' = Raised
                 /\ UNCHANGED prob_values
  /\ UNCHANGED z_values

(* one_proportion *)

\* z_score = (p - p0) / sqrt(p0 * (1 - p0) / n)
one_proportion_statistic(p, p0, n) ==
  Quot((p - p0) * SZ, SqrtP(Quot(MulP(p0, SP - p0), n)))

one_proportion_prob(alpha, tt) ==
  CASE tt = "lower-tail" -> SP - alpha
    [] tt = "upper-tail" -> alpha
    [] tt = "two-tail"   -> SP - Quot(alpha, 2)

one_proportion_compared(zc, tt) == IF tt = "lower-tail" THEN -zc ELSE zc

one_proportion_reject(z, zc, tt) ==
  CASE tt = "two-tail"   -> Abs(z) > zc
    [] tt = "lower-tail" -> z < -zc
    [] tt = "upper-tail" -> z > zc

Call_one_proportion ==
  /\ BeginCall
  /\ \E p \in {3000, 4000, 5000, 6000, 6500}, p0 \in {5000}, n \in {50, 100},
        alpha \in Alphas, tt \in TestTypeArgs :
       LET z == one_proportion_statistic(p, p0, n) IN
       /\ call' = [op |-> "one_proportion", p |-> p, p0 |-> p0, n |-> n,
                   alpha |-> alpha, test_type |-> tt, statistic |-> z]
       /\ events' = ZEventsPrinted(tt)
       /\ IF tt \in TestTypes
            THEN /\ \E zc \in z_score_lookup(z_values, prob_values,
                                             one_proportion_prob(alpha, tt)) :
                      result' = ZResult(z, zc, one_proportion_compared(zc, tt),
                                        one_proportion_reject(z, zc, tt))
                 /\ prob_values' =
                      ProbValuesAfterDiffs(prob_values, one_proportion_prob(alpha, tt))
            ELSE /\ result' = Raised
                 /\ UNCHANGED prob_values
  /\ UNCHANGED z_values

(* two_sample_z_test *)

\* z_score = (x1_bar - x2_bar) / sqrt(sigma1^2 / n1 + sigma2^2 / n2)
two_sample_z_statistic(x1_bar, x2_bar, sigma1, sigma2, n1, n2) ==
  DivZ((x1_bar - x2_bar) * SZ,
       SqrtZ(Quot(sigma1 * sigma1 * SZ, n1) + Quot(sigma2 * sigma2 * SZ, n2)))

two_sample_z_critical(alpha, tt) ==
  CASE tt = "lower-tail" -> -NormInv(SP - alpha)
    [] tt = "upper-tail" -> NormInv(SP - alpha)
    [] tt = "two-tail"   -> NormInv(SP - Quot(alpha, 2))

two_sample_z_reject(z, zc, tt) ==
  CASE tt = "two-tail"   -> Abs(z) > zc
    [] tt = "lower-tail" -> z < zc
    [] tt = "upper-tail" -> z > zc

Call_two_sample_z_test ==
  /\ BeginCall
  /\ \E x1_bar \in {48, 50, 52}, x2_bar \in {50, 51}, sigma1 \in {4}, sigma2 \in {3, 5},
        n1 \in {25}, n2 \in {16, 36}, alpha \in Alphas, tt \in TestTypeArgs :
       LET z == two_sample_z_statistic(x1_bar, x2_bar, sigma1, sigma2, n1, n2) IN
       /\ call' = [op |-> "two_sample_z_test", x1_bar |-> x1_bar, x2_bar |-> x2_bar,
                   sigma1 |-> sigma1, sigma2 |-> sigma2, n1 |-> n1, n2 |-> n2,
                   alpha |-> alpha, test_type |-> tt, statistic |-> z]
       /\ events' = ZEventsPrinted(tt)
       /\ result' = IF tt \in TestTypes
                      THEN LET zc == two_sample_z_critical(alpha, tt)
                           IN  ZResult(z, zc, zc, two_sample_z_reject(z, zc, tt))
                      ELSE Raised
  /\ UNCHANGED <<z_values, prob_values>>

(* two_proportion_test *)

Methods == {"pooled", "unpooled"}

\* p_pooled = (p1 * n1 + p2 * n2) / (n1 + n2)
\* z_score = (p1 - p2) / sqrt(p_pooled * (1 - p_pooled) * (1 / n1 + 1 / n2)), or
\* z_score = (p1 - p2 - d) / sqrt(p1 * (1 - p1) / n1 + p2 * (1 - p2) / n2)
two_proportion_statistic(p1, p2, n1, n2, method, d) ==
  IF method = "pooled"
    THEN LET p_pooled == Quot(p1 * n1 + p2 * n2, n1 + n2)
         IN  Quot((p1 - p2) * SZ,
                  SqrtP(MulP(MulP(p_pooled, SP - p_pooled), Quot(SP, n1) + Quot(SP, n2))))
    ELSE Quot((p1 - p2 - d) * SZ,
              SqrtP(Quot(MulP(p1, SP - p1), n1) + Quot(MulP(p2, SP - p2), n2)))

two_proportion_critical(alpha, tt) ==
  CASE tt = "lower-tail" -> -NormInv(SP - alpha)
    [] tt = "upper-tail" -> NormInv(SP - alpha)
    [] tt = "two-tail"   -> NormInv(SP - Quot(alpha, 2))

two_proportion_reject(z, zc, tt) ==
  CASE tt = "two-tail"   -> Abs(z) > zc
    [] tt = "lower-tail" -> z < zc
    [] tt = "upper-tail" -> z > zc

Call_two_proportion_test ==
  /\ BeginCall
  /\ \E p1 \in {3000, 4000, 5000}, p2 \in {3000, 4500}, n1 \in {100}, n2 \in {100, 200},
        alpha \in Alphas, tt \in TestTypeArgs, method \in Methods \cup {"exact"},
        d \in {0, 500} :
       IF method \notin Methods
         THEN /\ call' = [op |-> "two_proportion_test", p1 |-> p1, p2 |-> p2, n1 |-> n1,
                          n2 |-> n2, alpha |-> alpha, test_type |-> tt,
                          method |-> method, d |-> d, statistic |-> 0]
              /\ events' = <<"raise">>
              /\ result' = Raised
         ELSE LET z == two_proportion_statistic(p1, p2, n1, n2, method, d) IN
              /\ call' = [op |-> "two_proportion_test", p1 |-> p1, p2 |-> p2, n1 |-> n1,
                          n2 |-> n2, alpha |-> alpha, test_type |-> tt,
                          method |-> method, d |-> d, statistic |-> z]
              /\ events' = ZEventsSilent(tt)
              /\ result' = IF tt \in TestTypes
                             THEN LET zc == two_proportion_critical(alpha, tt)
                                  IN  ZResult(z, zc, zc, two_proportion_reject(z, zc, tt))
                             ELSE Raised
  /\ UNCHANGED <<z_values, prob_values>>

----------------------------------------------------------------------------
(* The p-value based tests: t_test, two_sample_t_test, paired_t_test,      *)
(* chi_square_test, F_test                                                 *)

PTestNames ==
  {"t_test", "two_sample_t_test", "paired_t_test", "chi_square_test", "F_test"}

\* the steps of a p-value based test: the statistic is computed first, the
\* test_type is looked at when the p-value is computed
PEvents(tt) ==
  <<"compute_statistic">> \o
    (IF tt \in TestTypes
       THEN <<"compute_p_value", "print_verdict", "return">>
       ELSE <<"raise">>)

RECURSIVE SeqSum(_)
SeqSum(s) == IF s = <<>> THEN 0 ELSE Head(s) + SeqSum(Tail(s))

\* the mean of a sample of integers, in hundredths
SampleMean(sample) == RDiv(SeqSum(sample) * SZ, Len(sample))

\* sum of the squared deviations from m (hundredths), in ten-thousandths
SumSq(sample, m) ==
  SeqSum([i \in 1..Len(sample) |-> (sample[i] * SZ - m) * (sample[i] * SZ - m)])

\* torch.std(sample, unbiased=True), in hundredths; Len(sample) >= 2
SampleStd(sample) ==
  SqrtZ(RDiv(SumSq(sample, SampleMean(sample)), (Len(sample) - 1) * SZ))

(* t_test *)

\* t_value = (x_bar - mu) / (s / sqrt(n))
t_test_statistic(x_bar, mu, s, n) ==
  DivZ((x_bar - mu) * SZ, DivZ(s * SZ, SqrtZ(n * SZ)))

\* a variant whose two-tail p-value takes the statistic without its absolute value
t_test_p_value_NoAbs(t_value, df, tt) ==
  CASE tt = "lower-tail" -> t_cdf(t_value, df)
    [] tt = "upper-tail" -> SP - t_cdf(t_value, df)
    [] tt = "two-tail"   -> 2 * (SP - t_cdf(t_value, df))

t_test_p_value(t_value, df, tt) ==
  CASE tt = "lower-tail" -> t_cdf(t_value, df)
    [] tt = "upper-tail" -> SP - t_cdf(t_value, df)
    [] tt = "two-tail"   -> 2 * (SP - t_cdf(Abs(t_value), df))

\* whether t_pdf is a number for df: for df = 0 its numerator is exp(-inf) = 0
\* and its denominator has the factor sqrt(0 * pi) = 0, so the density, the CDF
\* and the p-value are not numbers
t_pdf_defined(df) == df # 0

\* the statistic with a p-value that is not a number: `p_value < alpha` is false
PNaNResult(stat, alpha) ==
  [raised |-> FALSE, kind |-> "fin", statistic |-> stat, vkind |-> "nan", value |-> 0,
   compared |-> alpha, verdict |-> Verdict(FALSE)]

Call_t_test ==
  /\ BeginCall
  /\ \E x_bar \in {48, 50, 53}, mu \in {50}, s \in {2, 4}, n \in {1, 2, 4, 9},
        alpha \in Alphas, tt \in TestTypeArgs :
       LET df == n - 1
           t_value == t_test_statistic(x_bar, mu, s, n)
       IN  /\ call' = [op |-> "t_test", x_bar |-> x_bar, mu |-> mu, s |-> s, n |-> n,
                       alpha |-> alpha, test_type |-> tt, statistic |-> t_value]
           /\ events' = PEvents(tt)
           /\ result' = IF tt \notin TestTypes THEN Raised
                        ELSE IF ~t_pdf_defined(df) THEN PNaNResult(t_value, alpha)
                        ELSE PResult(t_value, t_test_p_value(t_value, df, tt), alpha)
  /\ UNCHANGED <<z_values, prob_values>>

(* two_sample_t_test *)

\* se = pooled_std * sqrt(1/n1 + 1/n2) or sqrt(std1^2/n1 + std2^2/n2)
two_sample_t_se(n1, n2, std1, std2, equal_variances) ==
  IF equal_variances
    THEN LET pooled_std == SqrtZ(RDiv(((n1 - 1) * std1 * std1 + (n2 - 1) * std2 * std2) * SZ,
                                      n1 + n2 - 2))
         IN  MulZ(pooled_std, SqrtZ(RDiv(SZ, n1) + RDiv(SZ, n2)))
    ELSE SqrtZ(RDiv(std1 * std1 * SZ, n1) + RDiv(std2 * std2 * SZ, n2))

\* df = n1 + n2 - 2, or the Welch-Satterthwaite formula; the gamma function of
\* the density is evaluated at the nearest integer
two_sample_t_df(n1, n2, std1, std2, equal_variances) ==
  IF equal_variances
    THEN n1 + n2 - 2
    ELSE LET a == RDiv(std1 * std1 * SZ, n1)
             b == RDiv(std2 * std2 * SZ, n2)
         IN  RDiv(DivZ(MulZ(a + b, a + b),
                       RDiv(MulZ(a, a), n1 - 1) + RDiv(MulZ(b, b), n2 - 1)), SZ)

\* t_statistic = (mean1 - mean2) / se
two_sample_t_statistic(mean1, mean2, n1, n2, std1, std2, equal_variances) ==
  DivZ((mean1 - mean2) * SZ, two_sample_t_se(n1, n2, std1, std2, equal_variances))

two_sample_t_p_value(t_statistic, df, tt) ==
  CASE tt = "lower-tail" -> t_cdf(t_statistic, df)
    [] tt = "upper-tail" -> SP - t_cdf(t_statistic, df)
    [] tt = "two-tail"   -> 2 * (SP - t_cdf(Abs(t_statistic), df))

Call_two_sample_t_test ==
  /\ BeginCall
  /\ \E mean1 \in {10, 12}, mean2 \in {10, 13}, n1 \in {3, 5}, n2 \in {3, 4},
        std1 \in {2}, std2 \in {2, 3}, alpha \in {500}, tt \in TestTypeArgs,
        equal_variances \in BOOLEAN :
       LET df == two_sample_t_df(n1, n2, std1, std2, equal_variances)
           t_statistic ==
             two_sample_t_statistic(mean1, mean2, n1, n2, std1, std2, equal_variances)
       IN  /\ call' = [op |-> "two_sample_t_test", mean1 |-> mean1, mean2 |-> mean2,
                       n1 |-> n1, n2 |-> n2, std1 |-> std1, std2 |-> std2,
                       alpha |-> alpha, test_type |-> tt,
                       equal_variances |-> equal_variances, statistic |-> t_statistic]
           /\ events' = PEvents(tt)
           /\ result' = IF tt \in TestTypes
                          THEN PResult(t_statistic,
                                       two_sample_t_p_value(t_statistic, df, tt), alpha)
                          ELSE Raised
  /\ UNCHANGED <<z_values, prob_values>>

(* paired_t_test *)

\* pairs of samples of equal length whose differences are not all equal
PairedSamples ==
  {<<<<1, 2, 3>>, <<1, 3, 2>>>>, <<<<4, 6, 8>>, <<3, 4, 8>>>>,
   <<<<1, 2, 3, 4>>, <<2, 2, 5, 6>>>>, <<<<5, 5, 7, 9>>, <<4, 6, 6, 10>>>>,
   <<<<3, 3, 3>>, <<1, 2, 4>>>>, <<<<1, 2, 3, 4, 5>>, <<1, 1, 3, 5, 5>>>>}

\* differences = sample_1 - sample_2
Differences(sample_1, sample_2) == [i \in 1..Len(sample_1) |-> sample_1[i] - sample_2[i]]

\* t_statistic = mean_difference / (std_difference / sqrt(n))
paired_t_statistic(sample_1, sample_2) ==
  LET differences == Differences(sample_1, sample_2)
  IN  DivZ(SampleMean(differences),
           DivZ(SampleStd(differences), SqrtZ(Len(differences) * SZ)))

paired_t_p_value(t_statistic, df, tt) ==
  CASE tt = "lower-tail" -> t_cdf(t_statistic, df)
    [] tt = "upper-tail" -> SP - t_cdf(t_statistic, df)
    [] tt = "two-tail"   -> 2 * (SP - t_cdf(Abs(t_statistic), df))

Call_paired_t_test ==
  /\ BeginCall
  /\ \E samples \in PairedSamples, swap \in BOOLEAN, alpha \in Alphas, tt \in TestTypeArgs :
       LET sample_1 == IF swap THEN samples[2] ELSE samples[1]
           sample_2 == IF swap THEN samples[1] ELSE samples[2]
           df == Len(sample_1) - 1
           t_statistic == paired_t_statistic(sample_1, sample_2)
       IN  /\ call' = [op |-> "paired_t_test", sample_1 |-> sample_1,
                       sample_2 |-> sample_2, alpha |-> alpha, test_type |-> tt,
                       statistic |-> t_statistic]
           /\ events' = PEvents(tt)
           /\ result' = IF tt \in TestTypes
                          THEN PResult(t_statistic,
                                       paired_t_p_value(t_statistic, df, tt), alpha)
                          ELSE Raised
  /\ UNCHANGED <<z_values, prob_values>>

(* chi_square_test *)

\* chi_value = (k * s^2) / sigma^2
chi_square_statistic(s, sigma, k) == RDiv(k * s * s * SZ, sigma * sigma)

chi_square_p_value(chi_value, k, tt) ==
  CASE tt = "lower-tail" -> chi_cdf(chi_value, k)
    [] tt = "upper-tail" -> SP - chi_cdf(chi_value, k)
    [] tt = "two-tail"   ->
         LET left_tail  == chi_cdf(chi_value, k)
             right_tail == SP - chi_cdf(chi_value, k)
         IN  2 * Min2(left_tail, right_tail)

Call_chi_square_test ==
  /\ BeginCall
  /\ \E s \in {3, 8, 10, 12, 15}, sigma \in {10}, n \in {1, 3, 4, 5},
        alpha \in Alphas, tt \in TestTypeArgs :
       LET k == n - 1
           chi_value == chi_square_statistic(s, sigma, k)
       IN  /\ call' = [op |-> "chi_square_test", s |-> s, sigma |-> sigma, n |-> n,
                       alpha |-> alpha, test_type |-> tt, statistic |-> chi_value]
           /\ events' = PEvents(tt)
           /\ result' = IF tt \in TestTypes
                          THEN PResult(chi_value,
                                       chi_square_p_value(chi_value, k, tt), alpha)
                          ELSE Raised
  /\ UNCHANGED <<z_values, prob_values>>

(* F_test *)

\* samples of 3 and of 5 observations, two of them constant
FSamples ==
  {<<1, 2, 3>>, <<3, 5, 1>>, <<2, 4, 6>>, <<4, 4, 4>>,
   <<1, 2, 3, 4, 5>>, <<2, 8, 4, 6, 5>>, <<7, 7, 7, 7, 7>>}

\* std ** 2
Squared(std) == MulZ(std, std)

\* whether F_test takes the branch that puts sample_1's variance in the numerator
F_test_first_is_numerator(std1, std2) == Squared(std1) > Squared(std2)

\* the kind of a quotient of two floats a >= 0 and b >= 0
QuotKind(a, b) == IF b # 0 THEN "fin" ELSE IF a = 0 THEN "nan" ELSE "inf"

\* the kind and the value (when finite) of f_statistic
F_test_statistic_kind(std1, std2) ==
  IF F_test_first_is_numerator(std1, std2)
    THEN QuotKind(Squared(std1), Squared(std2))
    ELSE QuotKind(Squared(std2), Squared(std1))

F_test_statistic(std1, std2) ==
  IF F_test_first_is_numerator(std1, std2)
    THEN DivZ(Squared(std1), Squared(std2))
    ELSE DivZ(Squared(std2), Squared(std1))

\* a variant that never swaps the degrees of freedom
F_test_df_NoSwap(n1, n2, std1, std2) == <<n1 - 1, n2 - 1>>

\* the degrees of freedom <<d1, d2>> F_test passes to F_cdf
F_test_df(n1, n2, std1, std2) ==
  IF F_test_first_is_numerator(std1, std2)
    THEN <<n1 - 1, n2 - 1>>
    ELSE <<n2 - 1, n1 - 1>>

F_test_p_value(f_statistic, d1, d2, tt) ==
  CASE tt = "lower-tail" -> F_cdf(f_statistic, d1, d2)
    [] tt = "upper-tail" -> SP - F_cdf(f_statistic, d1, d2)
    [] tt = "two-tail"   ->
         LET left_tail  == F_cdf(f_statistic, d1, d2)
             right_tail == SP - F_cdf(f_statistic, d1, d2)
         IN  2 * Min2(left_tail, right_tail)

Call_F_test ==
  /\ BeginCall
  /\ \E sample_1 \in FSamples, sample_2 \in FSamples, alpha \in {500},
        tt \in TestTypeArgs :
       LET std1 == SampleStd(sample_1)
           std2 == SampleStd(sample_2)
           df   == F_test_df(Len(sample_1), Len(sample_2), std1, std2)
           kind == F_test_statistic_kind(std1, std2)
       IN  /\ call' = [op |-> "F_test", sample_1 |-> sample_1, sample_2 |-> sample_2,
                       alpha |-> alpha, test_type |-> tt, d1 |-> df[1], d2 |-> df[2],
                       statistic |-> IF kind = "fin" THEN F_test_statistic(std1, std2)
                                     ELSE 0]
           /\ events' = PEvents(tt)
           /\ result' =
                IF tt \notin TestTypes THEN Raised
                ELSE IF kind # "fin" THEN NaNResult(kind, alpha)
                ELSE LET f_statistic == F_test_statistic(std1, std2)
                     IN  PResult(f_statistic,
                                 F_test_p_value(f_statistic, df[1], df[2], tt), alpha)
  /\ UNCHANGED <<z_values, prob_values>>

----------------------------------------------------------------------------
(* one_way_ANOVA *)

\* the groups one_way_ANOVA is called with
Groups == {<<1, 2, 3>>, <<2, 3, 5>>, <<4, 6>>}

\* the tuples of at most n groups
RECURSIVE GroupTuples(_)
GroupTuples(n) ==
  IF n = 0 THEN {<<>>}
  ELSE GroupTuples(n - 1) \cup
       {Append(t, g) : t \in {u \in GroupTuples(n - 1) : Len(u) = n - 1}, g \in Groups}

\* the number of groups a call is made with, at most
MaxGroups == 4

\* a variant that accepts two groups
one_way_ANOVA_too_few_Two(samples) == Len(samples) < 2

\* len(samples) < 3
one_way_ANOVA_too_few(samples) == Len(samples) < 3

\* n = the total number of observations
ANOVA_n(samples) == SeqSum([i \in 1..Len(samples) |-> Len(samples[i])])

\* grand_mean, in hundredths
ANOVA_grand_mean(samples) ==
  RDiv(SeqSum([i \in 1..Len(samples) |-> SeqSum(samples[i])]) * SZ, ANOVA_n(samples))

\* ssb = sum of len(sample) * (sample.mean() - grand_mean)^2, in hundredths
ANOVA_ssb(samples) ==
  SeqSum([i \in 1..Len(samples) |->
            Len(samples[i]) * MulZ(SampleMean(samples[i]) - ANOVA_grand_mean(samples),
                                   SampleMean(samples[i]) - ANOVA_grand_mean(samples))])

\* ssw = sum of the squared deviations from each sample's mean, in hundredths
ANOVA_ssw(samples) ==
  SeqSum([i \in 1..Len(samples) |-> RDiv(SumSq(samples[i], SampleMean(samples[i])), SZ)])

\* f_statistic = (ssb / df1) / (ssw / df2); ssw > 0 for the groups above
ANOVA_statistic(samples) ==
  LET df1 == Len(samples) - 1
      df2 == ANOVA_n(samples) - Len(samples)
  IN  DivZ(RDiv(ANOVA_ssb(samples), df1), RDiv(ANOVA_ssw(samples), df2))

\* p_value = 1 - F_cdf(f_statistic, df1, df2)
ANOVA_p_value(samples) ==
  SP - F_cdf(ANOVA_statistic(samples), Len(samples) - 1, ANOVA_n(samples) - Len(samples))

\* the steps of one_way_ANOVA; the Tukey HSD test runs when the null is rejected
ANOVA_events(samples, alpha) ==
  IF one_way_ANOVA_too_few(samples) THEN <<"raise">>
  ELSE <<"convert", "compute_sums_of_squares", "compute_statistic", "compute_p_value",
         "print_verdict">> \o
       (IF ANOVA_p_value(samples) < alpha THEN <<"tukey_hsd", "return">> ELSE <<"return">>)

Call_one_way_ANOVA ==
  /\ BeginCall
  /\ \E samples \in GroupTuples(MaxGroups), alpha \in Alphas :
       /\ call' = [op |-> "one_way_ANOVA", samples |-> samples, alpha |-> alpha]
       /\ events' = ANOVA_events(samples, alpha)
       /\ result' = IF one_way_ANOVA_too_few(samples) THEN Raised
                    ELSE PResult(ANOVA_statistic(samples), ANOVA_p_value(samples), alpha)
  /\ UNCHANGED <<z_values, prob_values>>

----------------------------------------------------------------------------
(* t_cdf, chi_cdf and F_cdf called on their own *)

\* query points of t_cdf, from the lower end of the range to far above it
TPoints == {TLower, -300, 0, 300, 1000, 10000, 30000}

Call_t_cdf ==
  /\ BeginCall
  /\ \E t_value \in TPoints, df \in {1, 3} :
       /\ call' = [op |-> "t_cdf", t_value |-> t_value, df |-> df]
       /\ result' = [NoResult EXCEPT !.vkind = "fin", !.value = t_cdf(t_value, df)]
  /\ events' = <<"linspace", "t_pdf", "trapz", "return">>
  /\ UNCHANGED <<z_values, prob_values>>

\* query points of chi_cdf for k degrees of freedom: 0, the lower end of the
\* range and points above it (the fixed-point square root of the odd k holds
\* x up to 20)
ChiPoints(k) ==
  {0, ChiLower, 100, 600, 2000} \cup (IF k % 2 = 0 THEN {10000, 20000} ELSE {})

Call_chi_cdf ==
  /\ BeginCall
  /\ \E k \in 1..4 :
       \E x \in ChiPoints(k) :
         /\ call' = [op |-> "chi_cdf", x |-> x, k |-> k]
         /\ result' = [NoResult EXCEPT !.vkind = "fin", !.value = chi_cdf(x, k)]
  /\ events' = <<"linspace", "chi_log_pdf", "trapz", "return">>
  /\ UNCHANGED <<z_values, prob_values>>

\* query points of F_cdf
FPoints == {0, 100, 400, 1600, 3200}

Call_F_cdf ==
  /\ BeginCall
  /\ \E F \in FPoints, d \in {<<2, 4>>, <<4, 2>>} :
       /\ call' = [op |-> "F_cdf", F |-> F, d1 |-> d[1], d2 |-> d[2]]
       /\ result' = [NoResult EXCEPT !.vkind = "fin", !.value = F_cdf(F, d[1], d[2])]
  /\ events' = <<"linspace", "F_pdf", "trapz", "return">>
  /\ UNCHANGED <<z_values, prob_values>>

----------------------------------------------------------------------------
(* median and percentile *)

\* the length of the data sequences a call is made with, at most
MaxData == 3

\* 1-D data of 1 to MaxData observations, in every order
DataSeqs == UNION {[1..n -> {10, 20, 40}] : n \in 1..MaxData}

Interpolations == {"lower", "higher", "midpoint", "linear"}

\* interpolation arguments, one of them not an interpolation mode
InterpolationArgs == Interpolations \cup {"nearest"}

\* percentile arguments: quartiles, whose k = (n - 1) * (q / 100) is exact in
\* floating point, and two values outside [0, 100]
Percents == {-1, 0, 25, 50, 75, 100, 101}

\* sorted_data, _ = torch.sort(data, dim=0)
sort(data) ==
  CHOOSE t \in [1..Len(data) -> {data[i] : i \in 1..Len(data)}] :
    /\ \A i \in 1..(Len(data) - 1) : t[i] <= t[i + 1]
    /\ \A v \in {data[i] : i \in 1..Len(data)} :
         Cardinality({i \in 1..Len(data) : t[i] = v}) =
         Cardinality({i \in 1..Len(data) : data[i] = v})

\* a returned number (in hundredths), a return without a value, an error
Value(v) == [NoResult EXCEPT !.vkind = "fin", !.value = v]

\* median(data, interpolation): the result, values in hundredths; indices are
\* the source's 0-based indices plus 1
median(data, interpolation) ==
  LET sorted_data == sort(data)
      n == Len(data)
      left_val == n \div 2
      right_val == (n \div 2) + 1
  IN  IF n % 2 # 0 THEN Value(sorted_data[(n + 1) \div 2] * SZ)
      ELSE CASE interpolation = "lower" -> Value(sorted_data[left_val] * SZ)
             [] interpolation = "higher" -> Value(sorted_data[right_val] * SZ)
             [] interpolation = "midpoint" ->
                  Value(Quot((sorted_data[right_val] + sorted_data[left_val]) * SZ, 2))
             [] interpolation = "linear" ->
                  Value(sorted_data[left_val] * SZ +
                        Quot((sorted_data[right_val] - sorted_data[left_val]) * SZ, 2))
             [] OTHER -> Raised

Call_median ==
  /\ BeginCall
  /\ \E data \in DataSeqs, interpolation \in InterpolationArgs :
       /\ call' = [op |-> "median", data |-> data, interpolation |-> interpolation]
       /\ result' = median(data, interpolation)
       /\ events' = IF median(data, interpolation).raised
                      THEN <<"sort", "raise">> ELSE <<"sort", "return">>
  /\ UNCHANGED <<z_values, prob_values>>

\* k = (n - 1) * (q / 100), in hundredths
percentile_k(n, q) == (n - 1) * q

\* math.floor(k) and math.ceil(k), k >= 0 in hundredths
k_floor(k) == k \div SZ
k_ceil(k) == IF k % SZ = 0 THEN k \div SZ ELSE (k \div SZ) + 1

\* percentile(data, q, interpolation): the result, values in hundredths;
\* indices are the source's 0-based indices plus 1; an interpolation that
\* matches no branch falls off the end of the function
percentile(data, q, interpolation) ==
  IF ~(0 <= q /\ q <= 100) THEN Raised
  ELSE
    LET sorted_data == sort(data)
        k == percentile_k(Len(data), q)
        f == k_floor(k) + 1
        c == k_ceil(k) + 1
    IN  CASE interpolation = "lower" -> Value(sorted_data[f] * SZ)
          [] interpolation = "higher" -> Value(sorted_data[c] * SZ)
          [] interpolation = "midpoint" -> Value(Quot((sorted_data[f] + data[c]) * SZ, 2))
          [] interpolation = "linear" ->
               IF f = c THEN Value(sorted_data[f] * SZ)
               ELSE Value(sorted_data[f] * SZ +
                          (k - k_floor(k) * SZ) * (sorted_data[c] - sorted_data[f]))
          [] OTHER -> NoResult

Call_percentile ==
  /\ BeginCall
  /\ \E data \in DataSeqs, q \in Percents, interpolation \in InterpolationArgs :
       /\ call' = [op |-> "percentile", data |-> data, q |-> q,
                   interpolation |-> interpolation]
       /\ result' = percentile(data, q, interpolation)
       /\ events' = IF percentile(data, q, interpolation).raised
                      THEN <<"raise">> ELSE <<"sort", "return">>
  /\ UNCHANGED <<z_values, prob_values>>

----------------------------------------------------------------------------
(* goodness_of_fit and chi_independence *)

\* <<expected, observed>> frequencies, two of the pairs with observed = expected
FitSamples ==
  {<<<<10, 20>>, <<10, 20>>>>, <<<<10, 20>>, <<14, 16>>>>,
   <<<<10, 10, 10>>, <<10, 10, 10>>>>, <<<<10, 10, 10>>, <<8, 10, 12>>>>,
   <<<<10, 10, 10, 10>>, <<5, 15, 10, 10>>>>}

\* chi_value = sum((observed - expected)^2 / expected), in hundredths
goodness_of_fit_statistic(expected, observed) ==
  SeqSum([i \in 1..Len(expected) |->
            RDiv((observed[i] - expected[i]) * (observed[i] - expected[i]) * SZ,
                 expected[i])])

\* p_value = 1 - chi_cdf(chi_value, df)
upper_tail_p_value(chi_value, df) == SP - chi_cdf(chi_value, df)

Call_goodness_of_fit ==
  /\ BeginCall
  /\ \E sample \in FitSamples, alpha \in Alphas :
       LET expected == sample[1]
           observed == sample[2]
           df == Len(expected) - 1
           chi_value == goodness_of_fit_statistic(expected, observed)
       IN  /\ call' = [op |-> "goodness_of_fit", expected |-> expected,
                       observed |-> observed, alpha |-> alpha, df |-> df]
           /\ result' = PResult(chi_value, upper_tail_p_value(chi_value, df), alpha)
  /\ events' = <<"compute_statistic", "compute_p_value", "print_verdict", "return">>
  /\ UNCHANGED <<z_values, prob_values>>

\* observed contingency tables, two of them with independent rows and columns
Tables ==
  {<<<<10, 20>>, <<20, 40>>>>, <<<<10, 20>>, <<20, 30>>>>,
   <<<<10, 20, 30>>, <<20, 40, 60>>>>, <<<<10, 20, 30>>, <<20, 20, 20>>>>}

\* row_sums, col_sums and grand_total
row_sums(observed) == [i \in 1..Len(observed) |-> SeqSum(observed[i])]
col_sums(observed) ==
  [j \in 1..Len(observed[1]) |-> SeqSum([i \in 1..Len(observed) |-> observed[i][j]])]
grand_total(observed) == SeqSum(row_sums(observed))

\* expected = outer(row_sums, col_sums) / grand_total, in hundredths
expected_frequency(observed, i, j) ==
  RDiv(row_sums(observed)[i] * col_sums(observed)[j] * SZ, grand_total(observed))

\* chi_value = sum((observed - expected)^2 / expected), in hundredths
chi_independence_statistic(observed) ==
  SeqSum([i \in 1..Len(observed) |->
    SeqSum([j \in 1..Len(observed[1]) |->
      LET e == expected_frequency(observed, i, j)
      IN  RDiv((observed[i][j] * SZ - e) * (observed[i][j] * SZ - e), e)])])

\* df = (num_rows - 1) * (num_cols - 1)
chi_independence_df(observed) == (Len(observed) - 1) * (Len(observed[1]) - 1)

\* chi_independence prints its verdict and returns nothing; the call keeps
\* the statistic and the p-value it computed
Call_chi_independence ==
  /\ BeginCall
  /\ \E observed \in Tables, alpha \in Alphas :
       LET df == chi_independence_df(observed)
           chi_value == chi_independence_statistic(observed)
           p_value == upper_tail_p_value(chi_value, df)
       IN  /\ call' = [op |-> "chi_independence", observed |-> observed,
                       alpha |-> alpha, df |-> df, statistic |-> chi_value,
                       p_value |-> p_value]
           /\ result' = [NoResult EXCEPT !.compared = alpha,
                                         !.verdict = Verdict(p_value < alpha)]
  /\ events' = <<"compute_statistic", "compute_p_value", "print_verdict", "return">>
  /\ UNCHANGED <<z_values, prob_values>>

Next ==
  \/ Call_z_score_lookup
  \/ Call_cdf
  \/ Call_ppf
  \/ Call_z_test
  \/ Call_one_proportion
  \/ Call_two_sample_z_test
  \/ Call_two_proportion_test
  \/ Call_t_test
  \/ Call_two_sample_t_test
  \/ Call_paired_t_test
  \/ Call_chi_square_test
  \/ Call_F_test
  \/ Call_one_way_ANOVA
  \/ Call_t_cdf
  \/ Call_chi_cdf
  \/ Call_F_cdf
  \/ Call_median
  \/ Call_percentile
  \/ Call_goodness_of_fit
  \/ Call_chi_independence
  \/ Return

Spec == Init /\ [][Next]_vars

----------------------------------------------------------------------------
(* Properties *)

Returned(ops) == pc = "returned" /\ call.op \in ops

\* a test returned a result for a valid test_type
Tested(ops) == Returned(ops) /\ ~result.raised

\* the resolution of the normal-quantile table, in hundredths of z
ZTol == RDiv(700, TableLen - 1)

\* the critical value of the resolver: quantile(alpha), quantile(1 - alpha),
\* quantile(1 - alpha / 2)
ResolverQuantile(alpha, tt) ==
  CASE tt = "lower-tail" -> NormInv(alpha)
    [] tt = "upper-tail" -> NormInv(SP - alpha)
    [] tt = "two-tail"   -> NormInv(SP - Quot(alpha, 2))

\* the p-value of the resolver for a z statistic
ResolverPValueZ(z, tt) ==
  CASE tt = "lower-tail" -> Phi(z)
    [] tt = "upper-tail" -> SP - Phi(z)
    [] tt = "two-tail"   -> 2 * (SP - Phi(Abs(z)))

(* C1: in every z-based test the value the statistic is compared against is
   quantile(alpha) for 'lower-tail', quantile(1 - alpha) for 'upper-tail' and
   quantile(1 - alpha/2) for 'two-tail', within the resolution of the
   normal-quantile table. *)
C1_CriticalValueIsQuantile ==
  Tested(ZTestNames) =>
    Abs(result.compared - ResolverQuantile(call.alpha, call.test_type)) <= ZTol

\* the verdicts the four z-based tests reach on the statistic z
ZVerdicts(z, alpha, tt) ==
  {z_test_reject(z, zc, tt) :
     zc \in z_score_lookup(z_values, prob_values, z_test_prob(alpha, tt))} \cup
  {one_proportion_reject(z, zc, tt) :
     zc \in z_score_lookup(z_values, prob_values, one_proportion_prob(alpha, tt))} \cup
  {two_sample_z_reject(z, two_sample_z_critical(alpha, tt), tt),
   two_proportion_reject(z, two_proportion_critical(alpha, tt), tt)}

\* the statistic is farther from the critical value than the table resolves
OffBoundary(z, alpha, tt) ==
  Abs((IF tt = "two-tail" THEN Abs(z) ELSE z) - ResolverQuantile(alpha, tt)) > ZTol

(* C2: the four z-based tests reach the same verdict on the same statistic,
   alpha and test_type, and that verdict is 'reject' exactly when the p-value
   of the same tail is below alpha (for every statistic that is not within
   the table's resolution of the critical value). *)
C2_SameVerdictByPValue ==
  (Tested(ZTestNames) /\ OffBoundary(result.statistic, call.alpha, call.test_type)) =>
    /\ ZVerdicts(result.statistic, call.alpha, call.test_type) =
         {ResolverPValueZ(result.statistic, call.test_type) < call.alpha}
    /\ result.verdict =
         Verdict(ResolverPValueZ(result.statistic, call.test_type) < call.alpha)

(* C3: in every hypothesis test, a test_type other than 'lower-tail',
   'upper-tail' or 'two-tail' makes the call fail, and nothing is computed or
   printed before the error. *)
C3_InvalidTestTypeFailsFirst ==
  (Returned(ZTestNames \cup PTestNames) /\ call.test_type \notin TestTypes) =>
    /\ result.raised
    /\ events = <<"raise">>

\* the degrees of freedom of the test of the call: n - 1, the pooled or Welch
\* degrees of freedom, the number of pairs - 1
OwnTDf ==
  CASE call.op = "t_test" -> call.n - 1
    [] call.op = "two_sample_t_test" ->
         two_sample_t_df(call.n1, call.n2, call.std1, call.std2, call.equal_variances)
    [] call.op = "paired_t_test" -> Len(call.sample_1) - 1

\* the test is a t test whose CDF is not a number at its degrees of freedom
TCdfIsNaN ==
  /\ call.op \in {"t_test", "two_sample_t_test", "paired_t_test"}
  /\ OwnTDf = 0

\* the squared standard deviation of a sample
Var(sample) == Squared(SampleStd(sample))

\* the orientations <<numerator, denominator>> of the two samples of F_test
\* that put the larger variance in the numerator
Orientations ==
  {o \in {<<call.sample_1, call.sample_2>>, <<call.sample_2, call.sample_1>>} :
     Var(o[1]) >= Var(o[2])}

\* the p-value of the resolver from the two one-sided tails
ResolverPValue(lower, lowerAbs, tt, symmetric) ==
  CASE tt = "lower-tail" -> lower
    [] tt = "upper-tail" -> SP - lower
    [] tt = "two-tail"   -> IF symmetric THEN 2 * (SP - lowerAbs)
                            ELSE 2 * Min2(lower, SP - lower)

(* C4: in every p-value based test the p-value is CDF(statistic) for
   'lower-tail', 1 - CDF(statistic) for 'upper-tail', 2 * (1 - CDF(|statistic|))
   for 'two-tail' in the t tests and 2 * min(CDF(statistic), 1 - CDF(statistic))
   in the chi-square and F tests, with the CDF at the test's own degrees of
   freedom (not a number where the t density is not one); the verdict is
   'reject' exactly when the p-value is below alpha. *)
C4_PValueByTail ==
  Tested(PTestNames) =>
    /\ result.verdict = Verdict(result.vkind = "fin" /\ result.value < call.alpha)
    /\ (result.kind = "fin") =>
         LET x == result.statistic
             tt == call.test_type
         IN  /\ result.vkind = (IF TCdfIsNaN THEN "nan" ELSE "fin")
             /\ (call.op \in {"t_test", "two_sample_t_test", "paired_t_test"}
                   /\ ~TCdfIsNaN) =>
                  result.value =
                    ResolverPValue(t_cdf(x, OwnTDf), t_cdf(Abs(x), OwnTDf), tt, TRUE)
             /\ call.op = "chi_square_test" =>
                  result.value =
                    ResolverPValue(chi_cdf(x, call.n - 1), 0, tt, FALSE)
             /\ call.op = "F_test" =>
                  \E o \in Orientations :
                    result.value =
                      ResolverPValue(F_cdf(x, Len(o[1]) - 1, Len(o[2]) - 1), 0, tt, FALSE)

C4_Witness ==
  /\ Tested(PTestNames)
  /\ call.op = "t_test"
  /\ call.test_type = "two-tail"
  /\ result.statistic < 0
  /\ result.verdict = "reject"

\* the lower one-sided tail CDF(statistic) of the test of the call
LowerTail ==
  CASE call.op \in {"t_test", "two_sample_t_test", "paired_t_test"} ->
         t_cdf(result.statistic, OwnTDf)
    [] call.op = "chi_square_test" -> chi_cdf(result.statistic, call.n - 1)
    [] call.op = "F_test" -> F_cdf(result.statistic, call.d1, call.d2)

(* C5: the p-value of a 'two-tail' test lies in [0,1] for every statistic,
   those at 0 included, and in the chi-square and F tests it is twice the
   smaller of the one-sided tails CDF(statistic) and 1 - CDF(statistic). *)
C5_TwoTailPValueInRange ==
  (Tested(PTestNames) /\ call.test_type = "two-tail" /\ result.kind = "fin") =>
    /\ 0 <= result.value
    /\ result.value <= SP
    /\ call.op \in {"chi_square_test", "F_test"} =>
         result.value = 2 * Min2(LowerTail, SP - LowerTail)

C7_LargerVarianceIsNumerator ==
  Tested({"F_test"}) =>
    \E o \in Orientations :
      /\ result.kind = QuotKind(Var(o[1]), Var(o[2]))
      /\ result.kind = "fin" => result.statistic = DivZ(Var(o[1]), Var(o[2]))
      /\ call.d1 = Len(o[1]) - 1
      /\ call.d2 = Len(o[2]) - 1

C7_Witness ==
  /\ Tested({"F_test"})
  /\ result.kind = "fin"
  /\ Var(call.sample_2) > Var(call.sample_1)
  /\ Len(call.sample_1) # Len(call.sample_2)
  /\ call.d1 = Len(call.sample_2) - 1

(* C8: one_way_ANOVA called with fewer than 3 samples fails before anything
   is computed and returns no result; with 3 or more samples it does not
   raise. *)
C8_AnovaNeedsThreeGroups ==
  Returned({"one_way_ANOVA"}) =>
    IF Len(call.samples) < 3
      THEN result = Raised /\ events = <<"raise">>
      ELSE ~result.raised /\ result.vkind = "fin"

C8_Witness ==
  /\ Returned({"one_way_ANOVA"})
  /\ Len(call.samples) = 2
  /\ result.raised

(* C9: the normal-quantile table holds the values the constructor gave it
   after any sequence of calls, failed calls included. *)
C9_TableReadOnly ==
  /\ z_values = InitZValues
  /\ prob_values = InitProbValues

C9_Witness ==
  /\ ncalls = MaxCalls
  /\ Returned({"z_test", "one_proportion", "z_score_lookup"})
  /\ prob_values = InitProbValues

(* C10: for a query probability within the table's range, the two entries
   z_score_lookup selects are adjacent and bracket the query, and the value
   returned lies between their z-values. *)
C10_SelectedEntriesBracket ==
  (/\ Returned({"z_score_lookup"})
   /\ prob_values[1] <= call.given_prob
   /\ call.given_prob <= prob_values[TableLen]) =>
    LET i == call.idx[1]
        j == call.idx[2]
        p == call.given_prob
    IN  /\ Abs(i - j) = 1
        /\ Min2(prob_values[i], prob_values[j]) <= p
        /\ p <= Max2(prob_values[i], prob_values[j])
        /\ Min2(z_values[i], z_values[j]) <= result.value
        /\ result.value <= Max2(z_values[i], z_values[j])

\* the query probability is a probability of the table
ExactMatch == \E i \in 1..TableLen : prob_values[i] = call.given_prob

(* C11: when the query probability equals a probability of the table,
   z_score_lookup takes the short-circuit path (one entry selected, no
   interpolation quotient evaluated) and returns the z-value of that entry. *)
C11_ExactMatchShortCircuits ==
  (Returned({"z_score_lookup"}) /\ ExactMatch) =>
    /\ call.idx[1] = call.idx[2]
    /\ prob_values[call.idx[1]] = call.given_prob
    /\ result.value = z_values[call.idx[1]]

(* C12: t_cdf, chi_cdf and F_cdf are non-decreasing in the query point: with
   the same density, lower bound and number of grid points, the value at a
   query point is at least the value at every smaller query point; and the
   value is 0 when the query point is the lower bound. *)
C12_QuadratureMonotone ==
  /\ Returned({"t_cdf"}) =>
       /\ \A a \in TPoints : a <= call.t_value => t_cdf(a, call.df) <= result.value
       /\ call.t_value = TLower => result.value = 0
  /\ Returned({"chi_cdf"}) =>
       /\ \A a \in ChiPoints(call.k) : a <= call.x => chi_cdf(a, call.k) <= result.value
       /\ call.x = ChiLower => result.value = 0
  /\ Returned({"F_cdf"}) =>
       /\ \A a \in FPoints : a <= call.F => F_cdf(a, call.d1, call.d2) <= result.value
       /\ call.F = 0 => result.value = 0

(* C13: an out-of-domain scale or degrees of freedom fails before anything is
   computed and returns nothing: cdf and z_test with sigma <= 0, t_test and
   chi_square_test with n <= 1. *)
C13_OutOfDomainFailsFast ==
  /\ (Returned({"cdf", "z_test"}) /\ call.sigma <= 0) =>
       result = Raised /\ events = <<"raise">>
  /\ (Returned({"t_test", "chi_square_test"}) /\ call.n <= 1) =>
       result = Raised /\ events = <<"raise">>

(* C14: median and percentile (with q in [0, 100]) called with an
   interpolation that is not 'lower', 'higher', 'midpoint' or 'linear' fail
   with an error, for data of every length. *)
C14_InvalidInterpolationRaises ==
  (/\ Returned({"median", "percentile"})
   /\ call.interpolation \notin Interpolations
   /\ call.op = "percentile" => (0 <= call.q /\ call.q <= 100)) =>
    result.raised

(* C15: chi_cdf(x, k) is not negative for any x >= 0, x = 0 and x below the
   lower end of the integration range included, so the upper-tail p-value
   1 - chi_cdf(chi_value, df) of goodness_of_fit and chi_independence is at
   most 1, also for the statistic 0 of observed = expected. *)
C15_ChiCdfNotNegative ==
  /\ (Returned({"chi_cdf"}) /\ call.x >= 0) => result.value >= 0
  /\ Returned({"goodness_of_fit"}) => result.value <= SP
  /\ Returned({"chi_independence"}) => call.p_value <= SP

\* the average of the order statistics at ranks floor(k) and ceil(k)
MidpointOfOrderStatistics(data, q) ==
  LET sorted_data == sort(data)
      k == percentile_k(Len(data), q)
  IN  Quot((sorted_data[k_floor(k) + 1] + sorted_data[k_ceil(k) + 1]) * SZ, 2)

(* C16: percentile(data, q, 'midpoint') is the average of the order
   statistics at ranks floor(k) and ceil(k) of the sorted data, lies between
   the 'lower' and the 'higher' percentile and is the same for the sorted
   data, for data in any order. *)
C16_MidpointOfOrderStatistics ==
  (/\ Returned({"percentile"})
   /\ call.interpolation = "midpoint"
   /\ 0 <= call.q /\ call.q <= 100) =>
    /\ result.vkind = "fin"
    /\ result.value = MidpointOfOrderStatistics(call.data, call.q)
    /\ percentile(call.data, call.q, "lower").value <= result.value
    /\ result.value <= percentile(call.data, call.q, "higher").value
    /\ result = percentile(sort(call.data), call.q, "midpoint")

====
